---------------------------- MODULE Spec2Model ----------------------------
(***************************************************************************)
(* SafeTrack: the tracking-session lifecycle, the location log and the SMS *)
(* dispatcher of src/app.py and src/sms_service.py.                        *)
(*                                                                         *)
(* The store (database.py: db, TrackingSession, LocationUpdate) is not     *)
(* part of the sources at hand; its column defaults (id, status,           *)
(* created_at, timestamp) and its transactional commit are modelled from   *)
(* the data model of the specification and are marked as such below.       *)
(*                                                                         *)
(* The read operations (get_tracking_session, get_locations, the expiry    *)
(* check of show_share_location_page) write nothing: they are operators on *)
(* the current state, and a claim about a read is stated for a read made   *)
(* in any reachable state.                                                 *)
(*                                                                         *)
(* Time is counted in hours.  A python dict is a record whose DOMAIN is    *)
(* the set of its keys; dict.get(k, d) is Get(d, k, default).  A query's   *)
(* .first() result is a sequence of length 0 (None) or 1.                  *)
(***************************************************************************)
EXTENDS Integers, Sequences, FiniteSets, TLC

(* ------------------------------ bounds -------------------------------- *)
MaxSessions == 1        \* sessions created in one run
MaxLocs     == 2        \* location rows written in one run
MaxTicks    == 1        \* clock advances in one run

(* ------------------------- program constants -------------------------- *)
ExpiryHours == 24       \* timedelta(hours=24)
NoneId      == 0        \* current_tracking_id = None
NoAccuracy  == 0        \* accuracy=None

server_url == "https://your-app-name.streamlit.app"

\* one advance of the clock: just past the lifetime of a session
TickHours == ExpiryHours + 1
MaxTime   == MaxTicks * TickHours

SessionIds == 1..MaxSessions
\* tracking ids a recipient may submit: every id a session can get, and one
\* that no session ever gets
TrackingIds == 1..(MaxSessions + 1)
Procs      == {"r1", "r2"}       \* concurrent recipient requests
Senders    == {"A"}
Recipients == {"B"}
Messages   == {"hi"}
\* (latitude, longitude, accuracy) samples a recipient may submit
Samples    == { <<40, -74, 25>>, <<51, 0, NoAccuracy>> }
\* outcomes of the provider call client.messages.create
ProviderOutcomes == {"sent", "throws"}

VARIABLES
    sessions,              \* table tracking_sessions: id -> row
    locations,             \* table location_updates, in insert order
    now,                   \* datetime.utcnow(), in hours
    is_configured,         \* SMSService.is_configured
    tracking_sessions,     \* st.session_state.tracking_sessions (ids)
    current_tracking_id,   \* st.session_state.current_tracking_id
    tracking_session,      \* send_tracking_request: id of its local row
    sms_result,            \* send_tracking_request: its local sms_result
    send_result,           \* last value returned by send_tracking_request
    proc,                  \* save_location calls in flight / returned
    open_conns             \* store connections opened and not yet closed

vars == << sessions, locations, now, is_configured, tracking_sessions,
           current_tracking_id, tracking_session, sms_result, send_result,
           proc, open_conns >>

(* ------------------------------ helpers ------------------------------- *)
Get(d, k, default) == IF k \in DOMAIN d THEN d[k] ELSE default

Range(s) == { s[i] : i \in DOMAIN s }

\* all orderings of the finite set S
Orderings(S) ==
    { s \in [1..Cardinality(S) -> S] : \A i, j \in DOMAIN s : i # j => s[i] # s[j] }

(* ------------------------- store (database.py) ------------------------ *)
\* TrackingSession.id default: a fresh identifier
NewId == Cardinality(DOMAIN sessions) + 1

\* TrackingSession.status default
DefaultStatus == "pending"

\* TrackingSession.created_at default
DefaultCreatedAt == now

\* LocationUpdate.id default: autoincrement primary key
NewRowId == Len(locations) + 1

\* LocationUpdate.timestamp default
DefaultTimestamp == now

\* TrackingSession(...) constructed with status='active'
NewTrackingSession_Active(sender_phone, recipient_phone, custom_message) ==
    [ id              |-> NewId,
      sender_phone    |-> sender_phone,
      recipient_phone |-> recipient_phone,
      message         |-> custom_message,
      status          |-> "active",
      created_at      |-> DefaultCreatedAt,
      expires_at      |-> now + ExpiryHours ]

\* TrackingSession(...) of send_tracking_request, as flushed by session.commit()
NewTrackingSession(sender_phone, recipient_phone, custom_message) ==
    [ id              |-> NewId,
      sender_phone    |-> sender_phone,
      recipient_phone |-> recipient_phone,
      message         |-> custom_message,
      status          |-> DefaultStatus,
      created_at      |-> DefaultCreatedAt,
      expires_at      |-> now + ExpiryHours ]

\* LocationUpdate(...) of save_location, as flushed by session.commit()
NewLocationUpdate(tracking_id, latitude, longitude, accuracy) ==
    [ id         |-> NewRowId,
      session_id |-> tracking_id,
      latitude   |-> latitude,
      longitude  |-> longitude,
      accuracy   |-> accuracy,
      timestamp  |-> DefaultTimestamp ]

(* ------------------------- sms_service.py ----------------------------- *)
\* f"{self.server_url}/?tracking_id={tracking_id}"
TrackingUrl(tracking_id) ==
    server_url \o "/?tracking_id=" \o ToString(tracking_id)

\* SMSService.send_tracking_request without its except branch: the provider's
\* exception reaches the caller
SMS_send_tracking_request_Uncaught(recipient_phone, tracking_id, custom_message, provider) ==
    LET tracking_url == TrackingUrl(tracking_id) IN
    IF ~is_configured
    THEN [ success      |-> FALSE,
           sms_sent     |-> FALSE,
           error        |-> "Twilio not configured",
           tracking_url |-> tracking_url,
           message      |-> "Manual sharing required - copy and send the URL" ]
    ELSE IF provider = "sent"
    THEN [ success      |-> TRUE,
           sms_sent     |-> TRUE,
           message_sid  |-> "SM1",
           tracking_url |-> tracking_url ]
    ELSE [ raised |-> TRUE ]

\* SMSService.send_tracking_request; provider is the outcome of the provider call
SMS_send_tracking_request(recipient_phone, tracking_id, custom_message, provider) ==
    LET tracking_url == TrackingUrl(tracking_id) IN
    IF ~is_configured
    THEN [ success      |-> FALSE,
           sms_sent     |-> FALSE,
           error        |-> "Twilio not configured",
           tracking_url |-> tracking_url,
           message      |-> "Manual sharing required - copy and send the URL" ]
    ELSE IF provider = "sent"
    THEN [ success      |-> TRUE,
           sms_sent     |-> TRUE,
           message_sid  |-> "SM1",
           tracking_url |-> tracking_url ]
    ELSE [ success      |-> FALSE,
           sms_sent     |-> FALSE,
           error        |-> "provider error",
           tracking_url |-> tracking_url ]

Init ==
    /\ sessions = << >>
    /\ locations = << >>
    /\ now = 0
    /\ is_configured \in BOOLEAN
    /\ tracking_sessions = << >>
    /\ current_tracking_id = NoneId
    /\ tracking_session = NoneId
    /\ sms_result = << >>
    /\ send_result = << >>
    /\ proc = [ p \in Procs |-> [ pc |-> "idle" ] ]
    /\ open_conns = 0

\* the clock advances
Tick ==
    /\ now + TickHours <= MaxTime
    /\ now' = now + TickHours
    /\ UNCHANGED << sessions, locations, is_configured, tracking_sessions,
                    current_tracking_id, tracking_session, sms_result,
                    send_result, proc, open_conns >>

(* ------------------------------ app.py -------------------------------- *)
\* session = db.get_session(): one more open store connection
OpenConn(n) == n + 1

\* the finally clause left out: the connection stays open
CloseConn_Missing(n) == n

\* finally: session.close()
CloseConn(n) == n - 1

\* init_session_state: query(TrackingSession).order_by(created_at.desc()).all();
\* rows with equal created_at come in an order the store chooses
init_session_state ==
    { s \in Orderings(DOMAIN sessions) :
        \A i, j \in DOMAIN s :
            i < j => sessions[s[i]].created_at >= sessions[s[j]].created_at }

\* send_tracking_request, dispatch delivered: the dict returned at lines 59-63
SendDeliveredResult(id, sms) ==
    [ success      |-> TRUE,
      tracking_id  |-> id,
      tracking_url |-> Get(sms, "tracking_url", "") ]

\* send_tracking_request, dispatch not delivered: the dict returned at lines 66-72
SendNotDeliveredResult(id, sms) ==
    [ success     |-> TRUE,
      tracking_id |-> id,
      sms_sent    |-> FALSE,
      error       |-> Get(sms, "error", "Unknown error"),
      debug_url   |-> Get(sms, "debug_url", "") ]

\* send_tracking_request, except branch: the dict returned at line 76
SendFailureResult(e) ==
    [ success |-> FALSE, error |-> e ]

\* send_tracking_request(sender_phone, recipient_phone, custom_message).
\* commit_ok: session.commit() succeeds; provider: outcome of the provider
\* call; refresh_ok: the query of init_session_state succeeds.
send_tracking_request(sender_phone, recipient_phone, custom_message, commit_ok, provider, refresh_ok) ==
    /\ Cardinality(DOMAIN sessions) < MaxSessions
    /\ LET row == NewTrackingSession(sender_phone, recipient_phone, custom_message)
           id  == row.id
           sms == SMS_send_tracking_request(recipient_phone, id, custom_message, provider)
       IN
       IF ~commit_ok
       THEN \* commit raises: rollback, nothing persisted, no dispatch
            /\ send_result' = SendFailureResult("PersistenceError")
            /\ tracking_session' = NoneId
            /\ sms_result' = << >>
            /\ UNCHANGED << sessions, current_tracking_id, tracking_sessions >>
       ELSE /\ sessions' = [ i \in DOMAIN sessions \cup {id} |->
                               IF i = id THEN row ELSE sessions[i] ]
            /\ tracking_session' = id
            /\ sms_result' = sms
            /\ IF "raised" \in DOMAIN sms
               THEN \* the dispatcher raised: except branch, rollback after commit
                    /\ send_result' = SendFailureResult("DispatchError")
                    /\ UNCHANGED << current_tracking_id, tracking_sessions >>
               ELSE IF sms.success
               THEN /\ current_tracking_id' = id
                    /\ IF refresh_ok
                       THEN /\ tracking_sessions' \in
                                 { s \in Orderings(DOMAIN sessions') :
                                     \A i, j \in DOMAIN s : i < j =>
                                        sessions'[s[i]].created_at >= sessions'[s[j]].created_at }
                            /\ send_result' = SendDeliveredResult(id, sms)
                       ELSE \* init_session_state raises: except branch
                            /\ send_result' = SendFailureResult("PersistenceError")
                            /\ UNCHANGED tracking_sessions
               ELSE /\ send_result' = SendNotDeliveredResult(id, sms)
                    /\ UNCHANGED << current_tracking_id, tracking_sessions >>
       \* the connection of line 37 is closed at line 78; on the delivered
       \* path init_session_state opens and closes one of its own in between
    /\ LET delivered ==
             /\ commit_ok
             /\ is_configured
             /\ provider = "sent"
       IN open_conns' = CloseConn(IF delivered
                                  THEN CloseConn(OpenConn(OpenConn(open_conns)))
                                  ELSE OpenConn(open_conns))
    /\ UNCHANGED << locations, now, is_configured, proc >>

SendTrackingRequest ==
    \E sender_phone \in Senders, recipient_phone \in Recipients,
       custom_message \in Messages, commit_ok \in BOOLEAN,
       provider \in ProviderOutcomes, refresh_ok \in BOOLEAN :
        send_tracking_request(sender_phone, recipient_phone, custom_message,
                              commit_ok, provider, refresh_ok)

\* main(): init_session_state() on every page run
InitSessionState ==
    /\ tracking_sessions' \in init_session_state
    /\ open_conns' = CloseConn(OpenConn(open_conns))
    /\ UNCHANGED << sessions, locations, now, is_configured, current_tracking_id,
                    tracking_session, sms_result, send_result, proc >>

\* get_tracking_session without its filter: the first row of the table
get_tracking_session_Unfiltered(tracking_id) ==
    IF DOMAIN sessions # {} THEN << sessions[1] >> ELSE << >>

\* get_tracking_session: query(...).filter(id == tracking_id).first()
get_tracking_session(tracking_id) ==
    IF tracking_id \in DOMAIN sessions THEN << sessions[tracking_id] >> ELSE << >>

\* get_locations: query(...).filter(session_id == tracking_id)
\*                .order_by(timestamp.asc()).all();
\* rows with equal timestamp come in an order the store chooses
get_locations(tracking_id) ==
    LET rows == { r \in Range(locations) : r.session_id = tracking_id } IN
    { s \in Orderings(rows) :
        \A i, j \in DOMAIN s : i < j => s[i].timestamp <= s[j].timestamp }

\* show_share_location_page, lines 423-432: what the recipient is shown
show_share_location_page(tracking_id) ==
    LET found == get_tracking_session(tracking_id) IN
    IF found = << >> THEN "invalid"
    ELSE IF found[1].status = "expired" THEN "expired"
    ELSE "share"

\* a call of get_tracking_session (lines 82-86): it opens a connection,
\* reads, and closes the connection; its value is get_tracking_session above
GetTrackingSession ==
    /\ open_conns' = CloseConn(OpenConn(open_conns))
    /\ UNCHANGED << sessions, locations, now, is_configured, tracking_sessions,
                    current_tracking_id, tracking_session, sms_result,
                    send_result, proc >>

\* a call of get_locations (lines 90-97): it opens a connection, reads, and
\* closes the connection; its value is one of get_locations above
GetLocations ==
    /\ open_conns' = CloseConn(OpenConn(open_conns))
    /\ UNCHANGED << sessions, locations, now, is_configured, tracking_sessions,
                    current_tracking_id, tracking_session, sms_result,
                    send_result, proc >>

(* --------------------------- save_location ---------------------------- *)
\* the status flip left out
FlipStatus_Missing(status) == status

\* the status flip as a toggle
FlipStatus_Toggle(status) ==
    IF status = "pending" THEN "active" ELSE "pending"

\* lines 108-109: if tracking_session.status == 'pending': ... = 'active'
FlipStatus(status) ==
    IF status = "pending" THEN "active" ELSE status

\* the new row written over the newest row
InsertRow_Overwrite(rows, row) ==
    IF rows = << >> THEN << row >> ELSE [ rows EXCEPT ![Len(rows)] = row ]

\* the new row replacing the rows of its session (latest position only)
InsertRow_LatestOnly(rows, row) ==
    Append(SelectSeq(rows, LAMBDA r : r.session_id # row.session_id), row)

\* the new row left out of the unit of work: the commit writes no row
InsertRow_Dropped(rows, row) == rows

\* session.add(location_update); session.commit(): the row joins the table
InsertRow(rows, row) == Append(rows, row)

\* the check of line 104 extended by an expiry test
SessionMissing_OrExpired(found) ==
    \/ found = << >>
    \/ now > found[1].expires_at

\* line 104: if not tracking_session
SessionMissing(found) == found = << >>

\* the dict returned at line 105
SaveNotFoundResult == [ success |-> FALSE, error |-> "Invalid tracking session" ]

\* the dict returned at line 121
SaveSuccessResult == [ success |-> TRUE ]

\* the dict returned at line 125
SaveFailureResult(e) == [ success |-> FALSE, error |-> e ]

\* calls that hold a LocationUpdate not yet committed
InFlight == { p \in Procs : proc[p].pc = "commit" }

\* save_location, the query of line 103 raises: except branch, rollback,
\* the connection is closed
SaveLocationQueryFails(p, tracking_id) ==
    /\ proc[p].pc \in {"idle", "done"}
    /\ Len(locations) + Cardinality(InFlight) < MaxLocs
    /\ proc' = [ proc EXCEPT ![p] =
          [ pc |-> "done", tracking_id |-> tracking_id,
            result |-> SaveFailureResult("PersistenceError"), row |-> 0 ] ]
    /\ open_conns' = CloseConn(OpenConn(open_conns))
    /\ UNCHANGED << sessions, locations, now, is_configured, tracking_sessions,
                    current_tracking_id, tracking_session, sms_result,
                    send_result >>

\* save_location, lines 101-118: open the connection, read the session, flip
\* the status of the local object, add the new row to the unit of work (or
\* return the failure of line 105 and close the connection)
SaveLocationBegin(p, tracking_id, latitude, longitude, accuracy) ==
    /\ proc[p].pc \in {"idle", "done"}
    /\ Len(locations) + Cardinality(InFlight) < MaxLocs
    /\ LET found == get_tracking_session(tracking_id) IN
       IF SessionMissing(found)
       THEN /\ proc' = [ proc EXCEPT ![p] =
                  [ pc |-> "done", tracking_id |-> tracking_id,
                    result |-> SaveNotFoundResult, row |-> 0 ] ]
            /\ open_conns' = CloseConn(OpenConn(open_conns))
       ELSE /\ proc' = [ proc EXCEPT ![p] =
                  [ pc          |-> "commit",
                    tracking_id |-> tracking_id,
                    latitude    |-> latitude,
                    longitude   |-> longitude,
                    accuracy    |-> accuracy,
                    read_status |-> found[1].status,
                    status      |-> FlipStatus(found[1].status) ] ]
            /\ open_conns' = OpenConn(open_conns)
    /\ UNCHANGED << sessions, locations, now, is_configured, tracking_sessions,
                    current_tracking_id, tracking_session, sms_result,
                    send_result >>

\* save_location, lines 119-127: session.commit() writes the changed status
\* and the new row in one transaction, or raises and is rolled back; the
\* connection is closed.  commit_ok: session.commit() succeeds.
SaveLocationCommit(p, commit_ok) ==
    /\ proc[p].pc = "commit"
    /\ LET c   == proc[p]
           row == NewLocationUpdate(c.tracking_id, c.latitude, c.longitude, c.accuracy)
       IN
       IF commit_ok
       THEN /\ sessions' = IF c.status # c.read_status
                           THEN [ sessions EXCEPT ![c.tracking_id].status = c.status ]
                           ELSE sessions
            /\ locations' = InsertRow(locations, row)
            /\ proc' = [ proc EXCEPT ![p] =
                  [ pc |-> "done", tracking_id |-> c.tracking_id,
                    result |-> SaveSuccessResult, row |-> row.id,
                    read_status |-> c.read_status ] ]
       ELSE /\ proc' = [ proc EXCEPT ![p] =
                  [ pc |-> "done", tracking_id |-> c.tracking_id,
                    result |-> SaveFailureResult("PersistenceError"), row |-> 0 ] ]
            /\ UNCHANGED << sessions, locations >>
    /\ open_conns' = CloseConn(open_conns)
    /\ UNCHANGED << now, is_configured, tracking_sessions, current_tracking_id,
                    tracking_session, sms_result, send_result >>

SaveLocation ==
    \/ \E p \in Procs, tracking_id \in TrackingIds :
          SaveLocationQueryFails(p, tracking_id)
    \/ \E p \in Procs, tracking_id \in TrackingIds, sample \in Samples :
          SaveLocationBegin(p, tracking_id, sample[1], sample[2], sample[3])
    \/ \E p \in Procs, commit_ok \in BOOLEAN :
          SaveLocationCommit(p, commit_ok)

Next ==
    \/ Tick
    \/ SendTrackingRequest
    \/ InitSessionState
    \/ GetTrackingSession
    \/ GetLocations
    \/ SaveLocation

Spec == Init /\ [][Next]_vars

(* ------------------------------ claims -------------------------------- *)
\* the last send_tracking_request committed its TrackingSession
SendCommitted == tracking_session # NoneId

\* the dispatcher has returned to the last send_tracking_request
Dispatched == DOMAIN sms_result # {}

\* C1: a send_tracking_request whose store write committed returns success
\* together with the new tracking id and the shareable link, whatever the
\* dispatcher reported: a not-delivered outcome does not make the result a
\* failure, and the returned link is never empty.  (Stated for the calls in
\* which nothing raised after the commit; those are the subject of C2.)
C1_CommittedSendReturnsLink ==
    /\ (SendCommitted /\ Dispatched /\ ~sms_result.success) => send_result.success
    /\ (SendCommitted /\ send_result.success) =>
          /\ Get(send_result, "tracking_id", NoneId) = tracking_session
          /\ Get(send_result, "tracking_url", "") # ""
          /\ Get(send_result, "tracking_url", "") =
                 server_url \o "/?tracking_id=" \o ToString(tracking_session)

\* a step of send_tracking_request that returned (some part of its outcome differs)
SendStep ==
    << send_result, tracking_session, DOMAIN sessions >>' #
    << send_result, tracking_session, DOMAIN sessions >>

\* C2: session creation is all-or-nothing: a send_tracking_request that
\* returns success=False persists no session, and one that returns
\* success=True persists exactly one new session.
C2_SendAllOrNothing ==
    [][ SendStep =>
          IF send_result'.success
          THEN Cardinality(DOMAIN sessions') = Cardinality(DOMAIN sessions) + 1
          ELSE DOMAIN sessions' = DOMAIN sessions ]_vars

\* C10: the dispatcher never raises: unconfigured, delivered or provider
\* failure, it returns a value carrying <server_url>/?tracking_id=<id>; a
\* delivered value carries the provider's message reference, a not-delivered
\* one an error reason.
C10_DispatcherReturnsData ==
    Dispatched =>
        /\ "raised" \notin DOMAIN sms_result
        /\ "tracking_url" \in DOMAIN sms_result
        /\ sms_result.tracking_url =
               server_url \o "/?tracking_id=" \o ToString(tracking_session)
        /\ sms_result.success =>
               /\ sms_result.sms_sent
               /\ "message_sid" \in DOMAIN sms_result
        /\ ~sms_result.success =>
               /\ ~sms_result.sms_sent
               /\ "error" \in DOMAIN sms_result

\* C10 witness: a configured dispatcher whose provider call threw has returned
C10_Witness ==
    /\ Dispatched
    /\ is_configured
    /\ ~sms_result.success
    /\ sms_result.error = "provider error"

\* save_location calls that have returned success
Succeeded == { p \in Procs : proc[p].pc = "done" /\ proc[p].result.success }

\* save_location calls that have returned failure
Failed == { p \in Procs : proc[p].pc = "done" /\ ~proc[p].result.success }

\* the rows of a session, in the order they were inserted
RowsOf(tracking_id) ==
    SelectSeq(locations, LAMBDA r : r.session_id = tracking_id)

\* C3: after a successful save_location the session is active (a pending
\* session was flipped), and every get_tracking_session made once the append
\* has returned observes status active.
C3_AppendActivates ==
    \A p \in Succeeded :
        LET found == get_tracking_session(proc[p].tracking_id) IN
        /\ found # << >>
        /\ found[1].status = "active"

\* C3 witness: the first append to a session (which was pending) has returned
C3_Witness ==
    \E p \in Succeeded :
        /\ Len(RowsOf(proc[p].tracking_id)) = 1
        /\ get_tracking_session(proc[p].tracking_id)[1].status = "active"

\* C4: status is monotonic: a session that is active is active after every
\* step; it never goes back to pending.
C4_StatusMonotonic ==
    [][ \A id \in DOMAIN sessions :
          sessions[id].status = "active" =>
              /\ id \in DOMAIN sessions'
              /\ sessions'[id].status = "active" ]_vars

\* C4 witness: an active session has taken a further append
C4_Witness ==
    \E id \in DOMAIN sessions :
        /\ sessions[id].status = "active"
        /\ Len(RowsOf(id)) >= 2

\* C5: save_location with an id that resolves to no session returns failure
\* and writes nothing; every LocationUpdate refers to a stored session.
C5_UnknownIdRejected ==
    /\ \A p \in Procs :
          (proc[p].pc = "done" /\ proc[p].tracking_id \notin DOMAIN sessions) =>
              /\ ~proc[p].result.success
              /\ proc[p].row = 0
    /\ \A p \in Procs :
          proc[p].pc = "commit" => proc[p].tracking_id \in DOMAIN sessions
    /\ \A i \in DOMAIN locations :
          locations[i].session_id \in DOMAIN sessions

\* C5 witness: a call with an unknown id has been refused while a session and
\* a row exist
C5_Witness ==
    /\ \E p \in Procs :
          /\ proc[p].pc = "done"
          /\ proc[p].tracking_id \notin DOMAIN sessions
          /\ proc[p].result = SaveNotFoundResult
    /\ DOMAIN sessions # {}
    /\ locations # << >>

\* C6: expiry is evaluated at read time: a session read after its expires_at
\* is seen as expired, by get_tracking_session and by the expiry check of the
\* share-location flow; a session read at its creation time is not.
C6_ExpiredAtReadTime ==
    \A id \in DOMAIN sessions :
        LET read == get_tracking_session(id)[1] IN
        /\ now > read.expires_at =>
              /\ read.status = "expired"
              /\ show_share_location_page(id) = "expired"
        /\ now = read.created_at =>
              /\ read.status # "expired"
              /\ show_share_location_page(id) = "share"

\* a sequence of rows is in ascending timestamp order
Ascending(rows) ==
    \A i, j \in DOMAIN rows : i < j => rows[i].timestamp <= rows[j].timestamp

\* two save_location calls that returned success overlapped: both read the
\* session before either committed
Overlapped ==
    \E p, q \in Succeeded :
        /\ p # q
        /\ proc[p].tracking_id = proc[q].tracking_id
        /\ proc[p].read_status = "pending"
        /\ proc[q].read_status = "pending"

\* C7: after a sequence of successful appends (none overlapping another),
\* get_locations returns all updates of the session in ascending timestamp
\* order with the update of the most recent completed append in the last
\* position, also when appends received equal timestamps.
C7_LatestAppendLast ==
    ~Overlapped =>
    \A tracking_id \in TrackingIds :
        \A rows \in get_locations(tracking_id) :
            LET inserted == RowsOf(tracking_id) IN
            /\ Range(rows) = Range(inserted)
            /\ Len(rows) = Len(inserted)
            /\ Ascending(rows)
            /\ inserted # << >> => rows[Len(rows)] = inserted[Len(inserted)]

\* C8: the location log is append-only: every step keeps each existing row,
\* with all its fields, at its place; the log changes only by one row added
\* by a save_location that returns success, and a call that returns failure
\* leaves it unchanged.
C8_AppendOnly ==
    [][ /\ Len(locations') >= Len(locations)
        /\ \A i \in DOMAIN locations : locations'[i] = locations[i]
        /\ \A p \in Procs :
              (proc'[p] # proc[p] /\ proc'[p].pc = "done" /\ ~proc'[p].result.success)
                  => locations' = locations
        /\ locations' # locations =>
              /\ Len(locations') = Len(locations) + 1
              /\ \E p \in Procs :
                    /\ proc[p].pc = "commit"
                    /\ proc'[p].pc = "done"
                    /\ proc'[p].result.success ]_vars

\* C8 witness: the log holds two rows and a save_location has failed
C8_Witness ==
    /\ Len(locations) = 2
    /\ \E p \in Failed : proc[p].tracking_id \in DOMAIN sessions

\* C9: under any interleaving of concurrent save_location calls, each call
\* that returned success has exactly one row in the log, written with its
\* session id; no two rows share an id and no two calls share a row; the
\* session of every row is active.
C9_ConcurrentAppends ==
    /\ \A p \in Succeeded :
          /\ Cardinality({ i \in DOMAIN locations : locations[i].id = proc[p].row }) = 1
          /\ \A i \in DOMAIN locations :
                locations[i].id = proc[p].row =>
                    locations[i].session_id = proc[p].tracking_id
    /\ \A p, q \in Succeeded : p # q => proc[p].row # proc[q].row
    /\ \A i, j \in DOMAIN locations : i # j => locations[i].id # locations[j].id
    /\ Len(locations) >= Cardinality(Succeeded)
    /\ \A i \in DOMAIN locations :
          sessions[locations[i].session_id].status = "active"

\* C9 witness: two calls on the same session overlapped (both read it while
\* it was pending) and both have returned success
C9_Witness ==
    /\ Overlapped
    /\ Len(locations) = 2

\* the session with this id is stored and the clock has passed its expires_at
PastExpiry(tracking_id) ==
    /\ tracking_id \in DOMAIN sessions
    /\ now > sessions[tracking_id].expires_at

\* C11: expiry is not enforced at write time: save_location on a stored
\* session whose expires_at has passed is not refused (only a store error
\* makes it fail), and its commit appends the LocationUpdate with the call's
\* values and leaves the session active, as for a session that has not
\* expired.
C11_ExpiredAppendAccepted ==
    [][ \A p \in Procs :
          /\ ( /\ proc[p].pc \in {"idle", "done"}
               /\ proc'[p] # proc[p]
               /\ PastExpiry(proc'[p].tracking_id) )
             => \/ proc'[p].pc = "commit"
                \/ /\ proc'[p].pc = "done"
                   /\ proc'[p].result = SaveFailureResult("PersistenceError")
          /\ ( /\ proc[p].pc = "commit"
               /\ proc'[p].pc = "done"
               /\ proc'[p].result.success )
             => /\ locations' = Append(locations,
                       [ id         |-> Len(locations) + 1,
                         session_id |-> proc[p].tracking_id,
                         latitude   |-> proc[p].latitude,
                         longitude  |-> proc[p].longitude,
                         accuracy   |-> proc[p].accuracy,
                         timestamp  |-> now ])
                /\ sessions'[proc[p].tracking_id].status = "active" ]_vars

\* C11 witness: the first append to a session was made after its expires_at
\* and has returned success; the session, read as pending, is now active
C11_Witness ==
    \E p \in Succeeded :
        /\ PastExpiry(proc[p].tracking_id)
        /\ proc[p].read_status = "pending"
        /\ sessions[proc[p].tracking_id].status = "active"
        /\ \E i \in DOMAIN locations :
              /\ locations[i].id = proc[p].row
              /\ locations[i].timestamp > sessions[proc[p].tracking_id].expires_at

\* the stored status of a session disagrees with its rows: active with no
\* row written, or a row written with the status still pending
HalfWritten(id) ==
    \/ sessions[id].status = "active" /\ RowsOf(id) = << >>
    \/ sessions[id].status = "pending" /\ RowsOf(id) # << >>

\* C12: the first-location transition is atomic with the insert: a
\* save_location that fails returns a failure result and leaves the store
\* (session statuses and location rows) unchanged, and no step leads to a
\* state with a status flipped and no row, or a row and the status pending.
C12_FlipAtomicWithInsert ==
    [][ /\ \A p \in Procs :
              ( /\ proc'[p] # proc[p]
                /\ proc'[p].pc = "done"
                /\ ~proc'[p].result.success )
              => /\ "error" \in DOMAIN proc'[p].result
                 /\ sessions' = sessions
                 /\ locations' = locations
        /\ \A id \in DOMAIN sessions' : ~HalfWritten(id)' ]_vars

\* C12 witness: a save_location on a pending session has failed on a store
\* error; the session is still pending and has no row
C12_Witness ==
    \E p \in Failed :
        /\ proc[p].result = SaveFailureResult("PersistenceError")
        /\ proc[p].tracking_id \in DOMAIN sessions
        /\ sessions[proc[p].tracking_id].status = "pending"
        /\ RowsOf(proc[p].tracking_id) = << >>

\* C13: every store connection an operation opens is closed before the
\* operation returns, on the success path, the early NotFound return and the
\* exception path: the open connections are exactly those of the
\* save_location calls still between their read and their commit, and none
\* is open once every operation has completed.
C13_ConnectionsReleased ==
    /\ open_conns = Cardinality(InFlight)
    /\ InFlight = {} => open_conns = 0

\* C13 witness: a save_location has succeeded, another has returned the
\* NotFound failure, a send_tracking_request has taken its except branch,
\* and no operation is in progress
C13_Witness ==
    /\ InFlight = {}
    /\ Succeeded # {}
    /\ \E p \in Failed : proc[p].result = SaveNotFoundResult
    /\ DOMAIN send_result # {}
    /\ ~send_result.success
    /\ open_conns = 0

\* C14: in every reachable state a session's stored status is active exactly
\* when it has at least one LocationUpdate and pending exactly when it has
\* none; the value expired is never stored.
C14_StatusTracksRows ==
    \A id \in DOMAIN sessions :
        /\ sessions[id].status \in {"pending", "active"}
        /\ sessions[id].status = "active" <=> Len(RowsOf(id)) >= 1
        /\ sessions[id].status = "pending" <=> Len(RowsOf(id)) = 0

\* C14 witness: a session with rows is stored as active although the clock
\* has passed its expires_at
C14_Witness ==
    \E id \in DOMAIN sessions :
        /\ now > sessions[id].expires_at
        /\ Len(RowsOf(id)) >= 1
        /\ sessions[id].status = "active"
=============================================================================
